---- MODULE Spec2Model ----
(***************************************************************************)
(* The asynchronous collection pipeline of pulling_data_async.py:          *)
(* build_player_dataset and the coroutines it runs on one asyncio event    *)
(* loop.  A step of the model is what one task executes between two        *)
(* suspension points (an await on network I/O or on the semaphore).        *)
(*                                                                         *)
(* The remote provider is the variable `provider`, fixed when the run      *)
(* starts: the response to every request the pipeline can issue.  A        *)
(* response is a record with a status ("200", another status, or "raise"   *)
(* for a request that raises: connection error, undecodable body).         *)
(***************************************************************************)
EXTENDS Integers, Sequences, FiniteSets, Bags, TLC

\* ------------------------------------------------------------ bounds
NumPlayers == 4          \* size of the provider's player population
MaxPairs == 2            \* longest competitions_seasons input
SemaphoreValue == 2      \* asyncio.Semaphore(100), here below BATCH_SIZE as in the source
BATCH_SIZE == 3          \* BATCH_SIZE = 1600, here below the population
MaxResults == 3          \* longest search result list

\* ------------------------------------------------------------ domains
Players == 1..NumPlayers
Seasons == {2022, 2023}
\* The (competition, season) pairs the provider knows.
Pairs == {<<"GB1", 2022>>, <<"GB1", 2023>>, <<"ES1", 2023>>}
ClubIds == {"c1", "c2"}
None == "None"

Range(s) == {s[i] : i \in DOMAIN s}

SeqsUpTo(S, n) == UNION {[1..k -> S] : k \in 0..n}

\* The name the provider lists a club under: c1 was renamed between seasons.
ClubName(club_id, season_id) ==
    IF club_id = "c1" THEN (IF season_id = 2022 THEN "Alpha" ELSE "Alpha FC")
    ELSE "Beta"

ClubNames == {ClubName(c, s) : c \in ClubIds, s \in Seasons}

VARIABLES
    competitions_seasons,   \* the argument of build_player_dataset
    provider,               \* the remote provider's responses
    pc,                     \* position of build_player_dataset
    cs_pc,                  \* position of each process_competition_season task
    clubs,                  \* its local `clubs`
    club_pc,                \* position of each process_club task
    player_ids,             \* set()
    competition_clubs       \* dict (insertion-ordered) as a sequence of entries

VARIABLES
    player_list,            \* list(player_ids): the set's iteration order
    batch,                  \* index of the batch being processed
    player_pc,              \* position of each process_player task
    semaphore,              \* the semaphore's free permits
    fetch_calls,            \* history: the calls of fetch_all_player_data, in order
    player_info_list,
    jersey_numbers_list,
    market_values_list,
    player_stats_list,
    competition_clubs_list,
    youth_pc,               \* position of each add_youth_team_data task
    exports                 \* the calls of export_data, in order

\* src/pulling_data.py, the variant with worker threads
VARIABLES
    processed_player_ids,        \* the module's global set
    run,                         \* number of the call of build_player_dataset in this process
    thread_pc,                   \* position of build_player_dataset
    pair_index,                  \* position of the loop over competitions_seasons
    club_index,                  \* position of the loop over clubs
    thread_clubs,                \* its local `clubs`
    players,                     \* its local `players`
    worker_pc,                   \* position of each fetch_all_player_data worker
    thread_fetch_calls,          \* history: the fetches executed in this run, in order
    thread_player_info_list,
    thread_jersey_numbers_list,
    thread_market_values_list,
    thread_exports               \* the calls of export_data in this process, in order

thread_vars == <<processed_player_ids, run, thread_pc, pair_index, club_index, thread_clubs,
                 players, worker_pc, thread_fetch_calls, thread_player_info_list,
                 thread_jersey_numbers_list, thread_market_values_list, thread_exports>>

detail_vars == <<player_list, batch, player_pc, semaphore, fetch_calls, player_info_list,
                 jersey_numbers_list, market_values_list, player_stats_list>>
enrich_vars == <<competition_clubs_list, youth_pc, exports>>
later_vars == <<detail_vars, enrich_vars>>
discovery_vars == <<cs_pc, clubs, club_pc, player_ids, competition_clubs>>
async_vars == <<pc, discovery_vars, later_vars>>
vars == <<competitions_seasons, provider, async_vars, thread_vars>>

\* ------------------------------------------------------------ discovery
\* get_clubs: the list built from a 200 response
ClubList(resp, season_id) ==
    [j \in 1..Len(resp.clubs) |->
        [club_id |-> resp.clubs[j], club_name |-> ClubName(resp.clubs[j], season_id)]]

HasKey(registry, key) ==
    \E n \in 1..Len(registry) :
        <<registry[n].competition_id, registry[n].club_id>> = key

\* A process_club that creates a new entry at every sighting.
RegisterClubAlwaysNew(registry, competition_id, season_id, club) ==
    Append(registry, [competition_id |-> competition_id,
                      club_id |-> club.club_id,
                      club_name |-> club.club_name,
                      season_ids |-> <<season_id>>])

\* A process_club whose later sighting overwrites the entry's season list.
RegisterClubOverwrite(registry, competition_id, season_id, club) ==
    IF ~HasKey(registry, <<competition_id, club.club_id>>)
    THEN RegisterClubAlwaysNew(registry, competition_id, season_id, club)
    ELSE [n \in 1..Len(registry) |->
            IF <<registry[n].competition_id, registry[n].club_id>>
                   = <<competition_id, club.club_id>>
            THEN [registry[n] EXCEPT !.season_ids = <<season_id>>]
            ELSE registry[n]]

\* process_club, lines 207-217: the update of competition_clubs
RegisterClub(registry, competition_id, season_id, club) ==
    IF ~HasKey(registry, <<competition_id, club.club_id>>)
    THEN Append(registry, [competition_id |-> competition_id,
                           club_id |-> club.club_id,
                           club_name |-> club.club_name,
                           season_ids |-> <<season_id>>])
    ELSE [n \in 1..Len(registry) |->
            IF <<registry[n].competition_id, registry[n].club_id>>
                   = <<competition_id, club.club_id>>
            THEN [registry[n] EXCEPT !.season_ids = Append(@, season_id)]
            ELSE registry[n]]

\* A listing or roster request that treats every status as a success.
FatalNever(resp) == FALSE

\* get_clubs lines 48-57, get_players lines 67-75: a status other than 200
\* raises SystemExit.
Fatal(resp) == resp.status # "200"

\* A get_players that keeps only the ids of the roster it has just read.
AddPlayersReplace(ids, roster) == Range(roster)

\* get_players, lines 70-71
AddPlayers(ids, roster) == ids \cup Range(roster)

\* A gather that returns as soon as one of its tasks has.
GatherReturnsAtFirst(pcs) == \E n \in DOMAIN pcs : pcs[n] = "done"

\* A gather that returns without waiting for its tasks.
GatherReturnsAtOnce(pcs) == TRUE

\* `await asyncio.gather(...)` (lines 226, 239, 282, 342) returns when every one
\* of its tasks has returned.
GatherReturns(pcs) == \A n \in DOMAIN pcs : pcs[n] = "done"

CompetitionId(i) == competitions_seasons[i][1]
SeasonId(i) == competitions_seasons[i][2]

\* SystemExit raised in a task stops the event loop; asyncio.run cancels every
\* task, build_player_dataset included.
Abort == pc' = "aborted"

\* process_competition_season, lines 223-231: get_clubs returns or raises
\* SystemExit; the process_club tasks are created by gather.
GetClubs(i) ==
    /\ pc = "discovery"
    /\ cs_pc[i] = "get_clubs"
    /\ LET resp == provider.clubs[competitions_seasons[i]] IN
       IF ~Fatal(resp)
       THEN /\ clubs' = [clubs EXCEPT ![i] = ClubList(resp, SeasonId(i))]
            /\ club_pc' = [club_pc EXCEPT
                               ![i] = [j \in 1..Len(resp.clubs) |-> "get_players"]]
            /\ cs_pc' = [cs_pc EXCEPT
                             ![i] = IF resp.clubs = << >> THEN "done" ELSE "gather"]
            /\ UNCHANGED pc
       ELSE /\ Abort
            /\ UNCHANGED <<cs_pc, clubs, club_pc>>
    /\ UNCHANGED <<competitions_seasons, provider, player_ids, competition_clubs>>
    /\ UNCHANGED later_vars
    /\ UNCHANGED thread_vars

\* get_players, lines 64-75: the roster's ids are added to player_ids, or
\* SystemExit is raised.
GetPlayers(i, j) ==
    /\ pc = "discovery"
    /\ cs_pc[i] = "gather"
    /\ club_pc[i][j] = "get_players"
    /\ LET resp == provider.players[<<clubs[i][j].club_id, SeasonId(i)>>] IN
       IF ~Fatal(resp)
       THEN /\ player_ids' = AddPlayers(player_ids, resp.players)
            /\ club_pc' = [club_pc EXCEPT ![i][j] = "register"]
            /\ UNCHANGED pc
       ELSE /\ Abort
            /\ UNCHANGED <<player_ids, club_pc>>
    /\ UNCHANGED <<competitions_seasons, provider, cs_pc, clubs, competition_clubs>>
    /\ UNCHANGED later_vars
    /\ UNCHANGED thread_vars

\* process_club, lines 207-217, run without suspension once get_players has
\* returned (its session is closed).
ProcessClub(i, j) ==
    /\ pc = "discovery"
    /\ cs_pc[i] = "gather"
    /\ club_pc[i][j] = "register"
    /\ competition_clubs' =
           RegisterClub(competition_clubs, CompetitionId(i), SeasonId(i), clubs[i][j])
    /\ club_pc' = [club_pc EXCEPT ![i][j] = "done"]
    /\ UNCHANGED <<competitions_seasons, provider, pc, cs_pc, clubs, player_ids>>
    /\ UNCHANGED later_vars
    /\ UNCHANGED thread_vars

\* process_competition_season, lines 226-232: the gather of its clubs returns.
CompetitionSeasonDone(i) ==
    /\ pc = "discovery"
    /\ cs_pc[i] = "gather"
    /\ GatherReturns(club_pc[i])
    /\ cs_pc' = [cs_pc EXCEPT ![i] = "done"]
    /\ UNCHANGED <<competitions_seasons, provider, pc, clubs, club_pc,
                   player_ids, competition_clubs>>
    /\ UNCHANGED later_vars
    /\ UNCHANGED thread_vars

\* ------------------------------------------------------------ detail
Kinds == {"profile", "jersey", "market", "stats"}

Min(a, b) == IF a < b THEN a ELSE b

\* The elements of a set of numbers in ascending order.
RECURSIVE Ascending(_)
Ascending(S) ==
    IF S = {} THEN << >>
    ELSE LET least == CHOOSE x \in S : \A y \in S : x <= y
         IN <<least>> \o Ascending(S \ {least})

\* Orders in which list(player_ids) iterates the set: the ascending order and
\* the descending one, each begun at any element. They put every player at every
\* position, before and after every other.
Orders(S) ==
    LET n == Cardinality(S)
        up == Ascending(S)
    IN IF S = {} THEN {<< >>}
       ELSE {[k \in 1..n |-> up[((k + shift - 1) % n) + 1]] : shift \in 0..(n - 1)}
            \cup {[k \in 1..n |-> up[n - ((k + shift - 1) % n)]] : shift \in 0..(n - 1)}

\* Slices that start one element too far: the element at a batch boundary is lost.
BatchesSkipBoundary(list, size) ==
    [k \in 1..((Len(list) + size) \div (size + 1)) |->
        SubSeq(list, (k - 1) * (size + 1) + 1, Min((k - 1) * (size + 1) + size, Len(list)))]

\* lines 275-278: list[i : i + size] for i in range(0, len(list), size)
Batches(list, size) ==
    [k \in 1..((Len(list) + size - 1) \div size) |->
        SubSeq(list, (k - 1) * size + 1, Min(k * size, Len(list)))]

\* A get_player_info that answers a failed request with an unmarked empty profile.
ProfileRowUnmarked(player_id, resp) ==
    IF resp.status = "200"
    THEN [player_id |-> player_id,
          primary_citizenship |-> resp.body[1],
          secondary_citizenship |-> IF Len(resp.body) > 1 THEN resp.body[2] ELSE None]
    ELSE [player_id |-> player_id, primary_citizenship |-> None,
          secondary_citizenship |-> None]

\* get_player_info, lines 84-106, on a response that does not raise
ProfileRow(player_id, resp) ==
    IF resp.status = "200"
    THEN [player_id |-> player_id,
          primary_citizenship |-> resp.body[1],
          secondary_citizenship |-> IF Len(resp.body) > 1 THEN resp.body[2] ELSE None]
    ELSE [player_id |-> player_id, error |-> resp.status]

\* get_player_info raises: the request raised, or citizenship has no entry
\* (player_json.get("citizenship")[0]).
ProfileRaises(resp) ==
    \/ resp.status = "raise"
    \/ resp.status = "200" /\ resp.body = << >>

\* The format specification :02 of an f-string: the decimal digits of a natural
\* number, padded with a zero on the left to a width of two.
Format02(n) == IF n < 10 THEN "0" \o ToString(n) ELSE ToString(n)

\* A season label cut at January instead of July and written without padding.
SeasonLabelCalendarYear(date) ==
    ToString(date.year % 100) \o "/" \o ToString((date.year + 1) % 100)

\* get_player_market_values, lines 119-124: the season label of the date of a
\* valuation, of which the code reads the year and the month.
SeasonLabel(date) ==
    IF date.month < 7
    THEN Format02((date.year - 1) % 100) \o "/" \o Format02(date.year % 100)
    ELSE Format02(date.year % 100) \o "/" \o Format02((date.year + 1) % 100)

\* get_player_jersey_number / get_player_market_values / get_player_stats on a
\* response that does not raise: one row per entry, [] on a non-200 status.
ListRows(player_id, kind, resp) ==
    IF resp.status = "200"
    THEN [n \in 1..Len(resp.body) |->
            IF kind = "market"
            THEN [player_id |-> player_id, entry |-> resp.body[n],
                  season |-> SeasonLabel(resp.body[n])]
            ELSE [player_id |-> player_id, entry |-> resp.body[n]]]
    ELSE << >>

\* A process_player that keeps the rows of the last player only.
ExtendReplaces(list, rows) == rows

\* process_player, lines 264-269: list.extend(rows)
Extend(list, rows) == list \o rows

\* fetch_all_player_data, lines 30-36: the gather raises when one of the four
\* requests raises.
FetchRaises(player_id) ==
    \/ ProfileRaises(provider.detail[player_id]["profile"])
    \/ \E kind \in Kinds \ {"profile"} : provider.detail[player_id][kind].status = "raise"

\* fetch_all_player_data, lines 30-36: the gather does not return while one of
\* the four requests does not answer and none raises.
FetchHangs(player_id) ==
    /\ ~FetchRaises(player_id)
    /\ \E kind \in Kinds : provider.detail[player_id][kind].status = "hang"

\* An acquire that does not wait for a free permit.
CanAcquireAlways(value) == TRUE

\* asyncio.Semaphore.acquire (async with semaphore, line 258)
CanAcquire(value) == value > 0

CurrentBatch == Batches(player_list, BATCH_SIZE)[batch]

\* A Step 3 that joins the seasons in the order in which they were appended.
Unsorted(seq) == seq

\* `",".join(map(str, ...))`, lines 293-295
RECURSIVE Join(_)
Join(seq) ==
    IF seq = << >> THEN ""
    ELSE IF Len(seq) = 1 THEN ToString(seq[1])
    ELSE ToString(seq[1]) \o "," \o Join(Tail(seq))

\* sorted(..., reverse=True), line 294
RECURSIVE SortedDesc(_)
SortedDesc(seq) ==
    IF seq = << >> THEN << >>
    ELSE LET m == CHOOSE n \in DOMAIN seq : \A k \in DOMAIN seq : seq[n] >= seq[k]
         IN <<seq[m]>> \o SortedDesc([k \in 1..(Len(seq) - 1) |->
                                         IF k < m THEN seq[k] ELSE seq[k + 1]])

ClubsList(registry) ==
    [n \in 1..Len(registry) |->
        ("season_id(s)" :> Join(SortedDesc(registry[n].season_ids))) @@
        [competition_id |-> registry[n].competition_id,
         club_id |-> registry[n].club_id,
         club_name |-> registry[n].club_name]]

\* lines 289-344: Step 3 builds competition_clubs_list and the gather of Step 4
\* creates one add_youth_team_data task per club.
EnterEnrichment ==
    /\ pc' = "enrich"
    /\ competition_clubs_list' = ClubsList(competition_clubs)
    /\ youth_pc' = [c \in 1..Len(competition_clubs) |-> "search"]
    /\ UNCHANGED exports

\* lines 280-287: the gather of one batch creates its process_player tasks.
StartBatch(batches, k) ==
    /\ batch' = k
    /\ player_pc' = [j \in 1..Len(batches[k]) |-> "waiting"]

\* lines 239-287: the gather of discovery returns; list(player_ids) fixes the
\* iteration order of the set and the batches are cut from it.
StartDetail ==
    /\ pc = "discovery"
    /\ GatherReturns(cs_pc)
    /\ \E order \in Orders(player_ids) :
          /\ player_list' = order
          /\ IF order = << >>
             THEN /\ EnterEnrichment
                  /\ UNCHANGED <<batch, player_pc>>
             ELSE /\ pc' = "detail"
                  /\ StartBatch(Batches(order, BATCH_SIZE), 1)
                  /\ UNCHANGED enrich_vars
    /\ UNCHANGED <<competitions_seasons, provider, discovery_vars, semaphore, fetch_calls,
                   player_info_list, jersey_numbers_list, market_values_list,
                   player_stats_list>>
    /\ UNCHANGED thread_vars

\* process_player, lines 258-260: the semaphore is acquired (waiters are served
\* in the order of the batch) and fetch_all_player_data issues its four requests.
Acquire(j) ==
    /\ pc = "detail"
    /\ player_pc[j] = "waiting"
    /\ \A h \in 1..(j - 1) : player_pc[h] # "waiting"
    /\ CanAcquire(semaphore)
    /\ semaphore' = semaphore - 1
    /\ player_pc' = [player_pc EXCEPT ![j] = "fetching"]
    /\ fetch_calls' = Append(fetch_calls, CurrentBatch[j])
    /\ UNCHANGED <<competitions_seasons, provider, pc, discovery_vars, player_list, batch,
                   player_info_list, jersey_numbers_list, market_values_list,
                   player_stats_list, enrich_vars>>
    /\ UNCHANGED thread_vars

\* process_player, lines 259-271: fetch_all_player_data returns and the results
\* are appended, or it raises; either way the semaphore is released.
FetchReturn(j) ==
    /\ pc = "detail"
    /\ player_pc[j] = "fetching"
    /\ ~FetchHangs(CurrentBatch[j])
    /\ LET player_id == CurrentBatch[j]
           resp == provider.detail[player_id]
       IN IF FetchRaises(player_id)
          THEN /\ player_pc' = [player_pc EXCEPT ![j] = "raised"]
               /\ UNCHANGED <<player_info_list, jersey_numbers_list,
                              market_values_list, player_stats_list>>
          ELSE /\ player_pc' = [player_pc EXCEPT ![j] = "done"]
               /\ player_info_list' =
                      Append(player_info_list, ProfileRow(player_id, resp["profile"]))
               /\ jersey_numbers_list' =
                      Extend(jersey_numbers_list, ListRows(player_id, "jersey", resp["jersey"]))
               /\ market_values_list' =
                      Extend(market_values_list, ListRows(player_id, "market", resp["market"]))
               /\ player_stats_list' =
                      Extend(player_stats_list, ListRows(player_id, "stats", resp["stats"]))
    /\ semaphore' = semaphore + 1
    /\ UNCHANGED <<competitions_seasons, provider, pc, discovery_vars, player_list, batch,
                   fetch_calls, enrich_vars>>
    /\ UNCHANGED thread_vars

\* lines 282-287: the gather of the batch raises what a process_player raised;
\* nothing catches it, build_player_dataset ends and asyncio.run cancels the
\* tasks left (a cancelled holder releases its permit).
DetailRaise ==
    /\ pc = "detail"
    /\ \E j \in DOMAIN player_pc : player_pc[j] = "raised"
    /\ pc' = "aborted"
    /\ player_pc' = [j \in DOMAIN player_pc |->
                        IF player_pc[j] \in {"waiting", "fetching"}
                        THEN "cancelled" ELSE player_pc[j]]
    /\ semaphore' = semaphore
                        + Cardinality({j \in DOMAIN player_pc : player_pc[j] = "fetching"})
    /\ UNCHANGED <<competitions_seasons, provider, discovery_vars, player_list, batch,
                   fetch_calls, player_info_list, jersey_numbers_list,
                   market_values_list, player_stats_list, enrich_vars>>
    /\ UNCHANGED thread_vars

\* lines 280-287: the gather of the batch returns; the next batch starts, or
\* after the last one Steps 3 and 4 begin.
BatchDone ==
    /\ pc = "detail"
    /\ GatherReturns(player_pc)
    /\ IF batch < Len(Batches(player_list, BATCH_SIZE))
       THEN /\ StartBatch(Batches(player_list, BATCH_SIZE), batch + 1)
            /\ UNCHANGED <<pc, enrich_vars>>
       ELSE /\ EnterEnrichment
            /\ UNCHANGED <<batch, player_pc>>
    /\ UNCHANGED <<competitions_seasons, provider, discovery_vars, player_list, semaphore,
                   fetch_calls, player_info_list, jersey_numbers_list,
                   market_values_list, player_stats_list>>
    /\ UNCHANGED thread_vars

\* ------------------------------------------------------------ enrichment
\* lines 325-331: the loop over results[1:], from the 1-based position n; 0 when
\* it ends without a match.
RECURSIVE ScanFrom(_, _, _)
ScanFrom(results, n, country) ==
    IF n > Len(results) THEN 0
    ELSE IF results[n].country = country THEN n
    ELSE ScanFrom(results, n + 1, country)

\* A scan that does not skip the first result.
YouthIndexNoSkip(results) ==
    IF results = << >> THEN 0 ELSE ScanFrom(results, 1, results[1].country)

\* lines 322-331: the position of the result taken as the youth team, 0 for none
YouthIndex(results) ==
    IF results = << >> THEN 0 ELSE ScanFrom(results, 2, results[1].country)

\* An add_youth_team_data that also takes the name of the result as the club's.
SetYouthAndName(club, id, name) ==
    [key \in DOMAIN club \cup {"youth_team_id", "youth_team_name"} |->
        IF key = "youth_team_id" THEN id
        ELSE IF key \in {"youth_team_name", "club_name"} THEN name
        ELSE club[key]]

\* club["youth_team_id"] = ..., club["youth_team_name"] = ...
SetYouth(club, id, name) ==
    [key \in DOMAIN club \cup {"youth_team_id", "youth_team_name"} |->
        IF key = "youth_team_id" THEN id
        ELSE IF key = "youth_team_name" THEN name
        ELSE club[key]]

\* add_youth_team_data, lines 311-335: the club dict after the search returned
YouthTeam(club, resp) ==
    IF resp.status = "200"
    THEN LET n == YouthIndex(resp.results) IN
         IF n = 0 THEN SetYouth(club, None, None)
         ELSE SetYouth(club, resp.results[n].id, resp.results[n].name)
    ELSE IF resp.status = "raise"
    THEN SetYouth(club, None, None)
    ELSE club

\* add_youth_team_data, lines 313-314: the search of a club does not answer.
SearchHangs(club) == provider.search[club.club_name].status = "hang"

\* add_youth_team_data, lines 307-337
AddYouthTeamData(c) ==
    /\ pc = "enrich"
    /\ youth_pc[c] = "search"
    /\ ~SearchHangs(competition_clubs_list[c])
    /\ competition_clubs_list' =
           [competition_clubs_list EXCEPT
               ![c] = YouthTeam(@, provider.search[competition_clubs_list[c].club_name])]
    /\ youth_pc' = [youth_pc EXCEPT ![c] = "done"]
    /\ UNCHANGED <<competitions_seasons, provider, pc, discovery_vars, detail_vars, exports>>
    /\ UNCHANGED thread_vars

\* lines 342-353: the gather of Step 4 returns and export_data is called.
Export ==
    /\ pc = "enrich"
    /\ GatherReturns(youth_pc)
    /\ pc' = "exported"
    /\ exports' = Append(exports, [player_info |-> player_info_list,
                                   jersey_numbers |-> jersey_numbers_list,
                                   market_values |-> market_values_list,
                                   player_stats |-> player_stats_list,
                                   competition_clubs |-> competition_clubs_list])
    /\ UNCHANGED <<competitions_seasons, provider, discovery_vars, detail_vars,
                   competition_clubs_list, youth_pc>>
    /\ UNCHANGED thread_vars

\* ------------------------------------------------------------ the provider
Ok(body) == [status |-> "200", body |-> body]
Status(status) == [status |-> status, body |-> << >>]

ClubsOk(ids) == [status |-> "200", clubs |-> ids]
ClubsStatus(status) == [status |-> status, clubs |-> << >>]
PlayersOk(ids) == [status |-> "200", players |-> ids]
PlayersStatus(status) == [status |-> status, players |-> << >>]

\* A search response: the n-th result has id "y<n>" and name "Youth <n>".
SearchOk(countries) ==
    [status |-> "200",
     results |-> [n \in 1..Len(countries) |->
                    [id |-> "y" \o ToString(n), name |-> "Youth " \o ToString(n),
                     country |-> countries[n]]]]
SearchStatus(status) == [status |-> status, results |-> << >>]

Countries == {"DE", "FR"}

\* A provider with every request answered 200.
BaseClubs ==
    [pair \in Pairs |->
        IF pair = <<"ES1", 2023>> THEN ClubsOk(<<"c1", "c1">>)
        ELSE ClubsOk(<<"c1", "c2">>)]

BasePlayers ==
    [key \in ClubIds \X Seasons |->
        IF key[1] = "c1" THEN PlayersOk(<<1, 2>>)
        ELSE IF key[2] = 2022 THEN PlayersOk(<<2, 3>>)
        ELSE PlayersOk(<<3, 3>>)]

BaseDetail ==
    [p \in Players |->
        [profile |-> Ok(IF p = 1 THEN <<"DE">> ELSE <<"DE", "FR">>),
         jersey |-> Ok(IF p = 1 THEN <<7, 10>> ELSE <<9>>),
         market |-> Ok(<<[year |-> 2022, month |-> 6 + (p % 2)]>>),
         stats |-> Ok(IF p = 2 THEN << >> ELSE <<2023>>)]]

BaseSearch == [name \in ClubNames |-> SearchOk(<<"DE", "FR", "DE">>)]

BaseProvider ==
    [clubs |-> BaseClubs, players |-> BasePlayers, detail |-> BaseDetail,
     search |-> BaseSearch]

\* itertools.product(competitions, seasons) gives every pair once, the
\* competitions in the order of their list and the seasons in the order of theirs.
ProductOrder(pair) ==
    IF pair = <<"GB1", 2022>> THEN 1 ELSE IF pair = <<"GB1", 2023>> THEN 2 ELSE 3

Inputs ==
    {input \in SeqsUpTo(Pairs, MaxPairs) \ {<< >>} :
        \A a, b \in DOMAIN input : a < b => ProductOrder(input[a]) < ProductOrder(input[b])}

\* The roster requests an input leads to under BaseProvider.
RosterKeys(input) ==
    {<<club_id, input[i][2]>> : club_id \in ClubIds, i \in DOMAIN input}
    \cap {key \in ClubIds \X Seasons :
             \E i \in DOMAIN input :
                 key[2] = input[i][2] /\ key[1] \in Range(BaseClubs[input[i]].clubs)}

\* Providers that differ from BaseProvider in the response to one discovery
\* request of the input.
DiscoveryProviders(input) ==
    {BaseProvider}
    \cup {[BaseProvider EXCEPT !.clubs[pair] = r] :
              pair \in Range(input), r \in {ClubsStatus("500"), ClubsOk(<< >>)}}
    \cup {[BaseProvider EXCEPT !.players[key] = r] :
              key \in RosterKeys(input),
              r \in {PlayersStatus("404"), PlayersOk(<< >>)}}

\* BaseProvider with the whole population on the rosters of GB1/2022.
PopulationProvider ==
    [BaseProvider EXCEPT
        !.players[<<"c2", 2022>>] = PlayersOk([k \in 1..(NumPlayers - 1) |-> k + 1])]

\* The players whose responses the detail providers change; list(player_ids)
\* puts them at every position of every batch.
Changed == {1}
ChangedToo == {1, 2}

OneDetailChanged(prov) ==
    {[prov EXCEPT !.detail[p][kind] = r] :
        p \in Changed, kind \in Kinds, r \in {Status("404"), Status("raise"), Ok(<< >>)}}

\* A profile request and a jersey, market-value or stats request (of one player
\* or of two) answered 404.
TwoDetailsFail(prov) ==
    {[prov EXCEPT !.detail[p]["profile"] = Status("404"), !.detail[q][other] = Status("404")] :
        p \in Changed, q \in ChangedToo, other \in Kinds \ {"profile"}}

\* One detail request never answers.
OneDetailHangs(prov) ==
    {[prov EXCEPT !.detail[p][kind] = Status("hang")] : p \in Changed, kind \in Kinds}

DetailProviders ==
    {PopulationProvider} \cup OneDetailChanged(PopulationProvider)
    \cup TwoDetailsFail(PopulationProvider) \cup OneDetailHangs(PopulationProvider)

SearchResponses ==
    {SearchStatus("404"), SearchStatus("raise"), SearchStatus("hang")}
    \cup {SearchOk(countries) : countries \in SeqsUpTo(Countries, MaxResults)}

\* Providers with empty rosters and any search response for the two clubs of GB1/2022.
EnrichProviders ==
    {[BaseProvider EXCEPT
         !.players = [key \in ClubIds \X Seasons |-> PlayersOk(<< >>)],
         !.search = [name \in ClubNames |->
                        IF name = "Alpha" THEN a ELSE IF name = "Beta" THEN b
                        ELSE BaseSearch[name]]] :
        a \in SearchResponses, b \in SearchResponses}

DiscoveryWorlds == UNION {{input} \X DiscoveryProviders(input) : input \in Inputs}
DetailWorlds == {<< <<"GB1", 2022>> >>} \X DetailProviders
EnrichWorlds == {<< <<"GB1", 2022>> >>} \X EnrichProviders

\* Valuation dates around the July boundary, the turn of a decade and of a century.
Years == {1999, 2000, 2001, 2009, 2010, 2022, 2023, 2099, 2100}
Months == 1..12

\* Providers with player 1 alone on every roster, and one valuation in the market
\* value history of player 1.
ValuationProviders ==
    {[BaseProvider EXCEPT
         !.players = [key \in ClubIds \X Seasons |-> PlayersOk(<<1>>)],
         !.detail[1]["market"] = Ok(<<[year |-> y, month |-> mth]>>)] :
        y \in Years, mth \in Months}

ValuationWorlds == {<< <<"GB1", 2022>> >>} \X ValuationProviders

Worlds == DiscoveryWorlds \cup DetailWorlds \cup EnrichWorlds \cup ValuationWorlds

\* ------------------------------------------------------------ specification
\* build_player_dataset of src/pulling_data_async.py is called.
AsyncStart ==
    /\ pc = "discovery"
    /\ cs_pc = [i \in DOMAIN competitions_seasons |-> "get_clubs"]
    /\ clubs = [i \in DOMAIN competitions_seasons |-> << >>]
    /\ club_pc = [i \in DOMAIN competitions_seasons |-> << >>]
    /\ player_ids = {}
    /\ competition_clubs = << >>
    /\ player_list = << >>
    /\ batch = 0
    /\ player_pc = << >>
    /\ semaphore = SemaphoreValue
    /\ fetch_calls = << >>
    /\ player_info_list = << >>
    /\ jersey_numbers_list = << >>
    /\ market_values_list = << >>
    /\ player_stats_list = << >>
    /\ competition_clubs_list = << >>
    /\ youth_pc = << >>
    /\ exports = << >>

\* src/pulling_data.py is not run.
ThreadIdle ==
    /\ processed_player_ids = {}
    /\ run = 0
    /\ thread_pc = "idle"
    /\ pair_index = 0
    /\ club_index = 0
    /\ thread_clubs = << >>
    /\ players = << >>
    /\ worker_pc = << >>
    /\ thread_fetch_calls = << >>
    /\ thread_player_info_list = << >>
    /\ thread_jersey_numbers_list = << >>
    /\ thread_market_values_list = << >>
    /\ thread_exports = << >>

Init ==
    /\ \E w \in Worlds : competitions_seasons = w[1] /\ provider = w[2]
    /\ AsyncStart
    /\ ThreadIdle

Next ==
    \/ \E i \in DOMAIN cs_pc : GetClubs(i)
    \/ \E i \in DOMAIN cs_pc : \E j \in DOMAIN club_pc[i] : GetPlayers(i, j)
    \/ \E i \in DOMAIN cs_pc : \E j \in DOMAIN club_pc[i] : ProcessClub(i, j)
    \/ \E i \in DOMAIN cs_pc : CompetitionSeasonDone(i)
    \/ StartDetail
    \/ \E j \in DOMAIN player_pc : Acquire(j)
    \/ \E j \in DOMAIN player_pc : FetchReturn(j)
    \/ DetailRaise
    \/ BatchDone
    \/ \E c \in DOMAIN youth_pc : AddYouthTeamData(c)
    \/ Export

Spec == Init /\ [][Next]_vars

\* ------------------------------------------------------------ src/pulling_data.py
MaxRuns == 2             \* calls of build_player_dataset in one process

\* The three requests of the thread variant's fetch_all_player_data.
ThreadKinds == {"profile", "jersey", "market"}

\* fetch_all_player_data, lines 18-20: `player_id in processed_player_ids`
Seen(player_id, seen) == player_id \in seen

\* build_player_dataset, lines 162-165: the global set is left as it is when a
\* run starts.
ProcessedAtStart(seen) == seen

\* The loops of lines 167-176 move on to the club at position j of the listing
\* of pair i, to the next pair after the last club, to export_data after the
\* last pair.
MoveTo(i, j, listing) ==
    IF j <= Len(listing)
    THEN /\ thread_pc' = "get_players"
         /\ pair_index' = i
         /\ club_index' = j
    ELSE /\ thread_pc' = IF i < Len(competitions_seasons) THEN "get_clubs" ELSE "export"
         /\ pair_index' = IF i < Len(competitions_seasons) THEN i + 1 ELSE i
         /\ club_index' = 0

ThreadAbort == thread_pc' = "aborted"

\* get_clubs, lines 52-66: the listing of the pair, or SystemExit.
ThreadGetClubs ==
    /\ thread_pc = "get_clubs"
    /\ LET resp == provider.clubs[competitions_seasons[pair_index]] IN
       IF ~Fatal(resp)
       THEN /\ thread_clubs' = ClubList(resp, SeasonId(pair_index))
            /\ MoveTo(pair_index, 1, resp.clubs)
       ELSE /\ ThreadAbort
            /\ UNCHANGED <<thread_clubs, pair_index, club_index>>
    /\ UNCHANGED <<processed_player_ids, run, players, worker_pc, thread_fetch_calls,
                   thread_player_info_list, thread_jersey_numbers_list,
                   thread_market_values_list, thread_exports>>
    /\ UNCHANGED <<competitions_seasons, provider, async_vars>>

\* get_players, lines 69-85, and executor.map of lines 178-181: one worker per
\* entry of the roster, or SystemExit.
ThreadGetPlayers ==
    /\ thread_pc = "get_players"
    /\ LET resp == provider.players[<<thread_clubs[club_index].club_id, SeasonId(pair_index)>>] IN
       IF ~Fatal(resp)
       THEN /\ players' = resp.players
            /\ worker_pc' = [w \in 1..Len(resp.players) |-> "check"]
            /\ thread_pc' = "map"
       ELSE /\ ThreadAbort
            /\ UNCHANGED <<players, worker_pc>>
    /\ UNCHANGED <<processed_player_ids, run, pair_index, club_index, thread_clubs,
                   thread_fetch_calls, thread_player_info_list, thread_jersey_numbers_list,
                   thread_market_values_list, thread_exports>>
    /\ UNCHANGED <<competitions_seasons, provider, async_vars>>

\* fetch_all_player_data, lines 17-40: the worker returns None, None, None for an
\* id found in the global set, and otherwise issues the three requests.
CheckProcessed(w) ==
    /\ thread_pc = "map"
    /\ worker_pc[w] = "check"
    /\ IF Seen(players[w], processed_player_ids)
       THEN /\ worker_pc' = [worker_pc EXCEPT ![w] = "skipped"]
            /\ UNCHANGED thread_fetch_calls
       ELSE /\ worker_pc' = [worker_pc EXCEPT ![w] = "fetching"]
            /\ thread_fetch_calls' = Append(thread_fetch_calls, players[w])
    /\ UNCHANGED <<processed_player_ids, run, thread_pc, pair_index, club_index, thread_clubs,
                   players, thread_player_info_list, thread_jersey_numbers_list,
                   thread_market_values_list, thread_exports>>
    /\ UNCHANGED <<competitions_seasons, provider, async_vars>>

\* fetch_all_player_data, lines 33-45: the three requests have returned and the
\* id is added to the global set.
FetchThenAdd(w) ==
    /\ thread_pc = "map"
    /\ worker_pc[w] = "fetching"
    /\ worker_pc' = [worker_pc EXCEPT ![w] = "done"]
    /\ processed_player_ids' = processed_player_ids \cup {players[w]}
    /\ UNCHANGED <<run, thread_pc, pair_index, club_index, thread_clubs, players,
                   thread_fetch_calls, thread_player_info_list, thread_jersey_numbers_list,
                   thread_market_values_list, thread_exports>>
    /\ UNCHANGED <<competitions_seasons, provider, async_vars>>

\* lines 184-190: the rows of one kind of the workers from position w on, in the
\* order of the roster; a worker that skipped its id gives none.
RECURSIVE WorkerRows(_, _)
WorkerRows(kind, w) ==
    IF w > Len(players) THEN << >>
    ELSE LET resp == provider.detail[players[w]][kind]
             rows == IF worker_pc[w] # "done" THEN << >>
                     ELSE IF kind = "profile" THEN <<ProfileRow(players[w], resp)>>
                     ELSE ListRows(players[w], kind, resp)
         IN rows \o WorkerRows(kind, w + 1)

\* lines 178-190: executor.map has every result; the results are appended and
\* the loop moves on.
CollectResults ==
    /\ thread_pc = "map"
    /\ \A w \in DOMAIN worker_pc : worker_pc[w] \in {"skipped", "done"}
    /\ thread_player_info_list' = thread_player_info_list \o WorkerRows("profile", 1)
    /\ thread_jersey_numbers_list' = thread_jersey_numbers_list \o WorkerRows("jersey", 1)
    /\ thread_market_values_list' = thread_market_values_list \o WorkerRows("market", 1)
    /\ MoveTo(pair_index, club_index + 1, thread_clubs)
    /\ UNCHANGED <<processed_player_ids, run, thread_clubs, players, worker_pc,
                   thread_fetch_calls, thread_exports>>
    /\ UNCHANGED <<competitions_seasons, provider, async_vars>>

\* line 193: export_data is called with the three lists.
ThreadExport ==
    /\ thread_pc = "export"
    /\ thread_pc' = "exported"
    /\ thread_exports' = Append(thread_exports,
                                [player_info |-> thread_player_info_list,
                                 jersey_numbers |-> thread_jersey_numbers_list,
                                 market_values |-> thread_market_values_list,
                                 fetched |-> thread_fetch_calls])
    /\ UNCHANGED <<processed_player_ids, run, pair_index, club_index, thread_clubs, players,
                   worker_pc, thread_fetch_calls, thread_player_info_list,
                   thread_jersey_numbers_list, thread_market_values_list>>
    /\ UNCHANGED <<competitions_seasons, provider, async_vars>>

\* lines 162-165: build_player_dataset is called with its three lists empty; the
\* module's global set is what the process has made of it.
StartRun(seen, number) ==
    /\ processed_player_ids' = ProcessedAtStart(seen)
    /\ run' = number
    /\ thread_pc' = "get_clubs"
    /\ pair_index' = 1
    /\ club_index' = 0
    /\ thread_clubs' = << >>
    /\ players' = << >>
    /\ worker_pc' = << >>
    /\ thread_fetch_calls' = << >>
    /\ thread_player_info_list' = << >>
    /\ thread_jersey_numbers_list' = << >>
    /\ thread_market_values_list' = << >>

\* build_player_dataset is called again in the same process, with the same argument.
RunAgain ==
    /\ thread_pc = "exported"
    /\ run < MaxRuns
    /\ StartRun(processed_player_ids, run + 1)
    /\ UNCHANGED thread_exports
    /\ UNCHANGED <<competitions_seasons, provider, async_vars>>

\* src/pulling_data_async.py is not run.
AsyncIdle ==
    /\ pc = "idle"
    /\ cs_pc = << >>
    /\ clubs = << >>
    /\ club_pc = << >>
    /\ player_ids = {}
    /\ competition_clubs = << >>
    /\ player_list = << >>
    /\ batch = 0
    /\ player_pc = << >>
    /\ semaphore = SemaphoreValue
    /\ fetch_calls = << >>
    /\ player_info_list = << >>
    /\ jersey_numbers_list = << >>
    /\ market_values_list = << >>
    /\ player_stats_list = << >>
    /\ competition_clubs_list = << >>
    /\ youth_pc = << >>
    /\ exports = << >>

\* Providers of the thread variant: BaseProvider, one discovery request of the
\* input changed, or one detail request answered 404.
ThreadWorlds ==
    UNION {{input} \X (DiscoveryProviders(input)
                       \cup {[BaseProvider EXCEPT !.detail[p][kind] = Status("404")] :
                                p \in Players, kind \in ThreadKinds}) :
           input \in Inputs}

\* The module is imported (line 10) and build_player_dataset is called.
ThreadInit ==
    /\ \E w \in ThreadWorlds : competitions_seasons = w[1] /\ provider = w[2]
    /\ AsyncIdle
    /\ processed_player_ids = {}
    /\ run = 1
    /\ thread_pc = "get_clubs"
    /\ pair_index = 1
    /\ club_index = 0
    /\ thread_clubs = << >>
    /\ players = << >>
    /\ worker_pc = << >>
    /\ thread_fetch_calls = << >>
    /\ thread_player_info_list = << >>
    /\ thread_jersey_numbers_list = << >>
    /\ thread_market_values_list = << >>
    /\ thread_exports = << >>

ThreadNext ==
    \/ ThreadGetClubs
    \/ ThreadGetPlayers
    \/ \E w \in DOMAIN worker_pc : CheckProcessed(w)
    \/ \E w \in DOMAIN worker_pc : FetchThenAdd(w)
    \/ CollectResults
    \/ ThreadExport
    \/ RunAgain

ThreadSpec == ThreadInit /\ [][ThreadNext]_vars

\* ------------------------------------------------------------ claims
InFlight == {j \in DOMAIN player_pc : player_pc[j] = "fetching"}

\* The detail stage has begun: the batches have been cut from list(player_ids).
DetailStarted == pc \in {"detail", "enrich", "exported"} \/ batch > 0

Count(seq, x) == Cardinality({n \in DOMAIN seq : seq[n] = x})

\* C1: at every moment the number of process_player tasks that hold the one
\* semaphore of the run (acquired, not yet released) is at most its value, in
\* every batch, and the free permits are the value minus the holders.
C1_ConcurrencyBound ==
    /\ Cardinality(InFlight) <= SemaphoreValue
    /\ pc = "detail" => semaphore = SemaphoreValue - Cardinality(InFlight)

\* C1 witness: every permit is held and a task of the batch waits for one.
C1_Witness ==
    /\ pc = "detail"
    /\ Cardinality(InFlight) = SemaphoreValue
    /\ \E j \in DOMAIN player_pc : player_pc[j] = "waiting"

\* The places (batch, position) of a player id in the batches.
Places(player_id) ==
    LET batches == Batches(player_list, BATCH_SIZE) IN
    {place \in (DOMAIN batches) \X (1..BATCH_SIZE) :
        /\ place[2] \in DOMAIN batches[place[1]]
        /\ batches[place[1]][place[2]] = player_id}

\* The batches cut from list(player_ids) partition the set, each holds between
\* one and BATCH_SIZE ids, and no id is passed to fetch_all_player_data twice.
BatchesPartition ==
    DetailStarted =>
        LET batches == Batches(player_list, BATCH_SIZE) IN
        /\ \A p \in player_ids : Cardinality(Places(p)) = 1
        /\ \A k \in DOMAIN batches :
              /\ Len(batches[k]) \in 1..BATCH_SIZE
              /\ Range(batches[k]) \subseteq player_ids
        /\ \A p \in Players : Count(fetch_calls, p) <= 1

\* The run is over after its batches were cut: export_data was called, or an
\* exception ended build_player_dataset.
EndedAfterBatching == pc = "exported" \/ (pc = "aborted" /\ batch > 0)

\* C2: the batches partition the discovered player ids, and in a run every
\* discovered player id is passed to fetch_all_player_data exactly once: none
\* twice at any moment, none skipped when the run is over.
C2_EveryPlayerFetchedOnce ==
    /\ BatchesPartition
    /\ EndedAfterBatching => \A p \in player_ids : Count(fetch_calls, p) = 1

Key(entry) == <<entry.competition_id, entry.club_id>>

\* The process_club tasks, as (pair index, club index), and the key each sights.
ClubTasks == UNION {{<<i, j>> : j \in DOMAIN club_pc[i]} : i \in DOMAIN club_pc}
TaskKey(task) == <<CompetitionId(task[1]), clubs[task[1]][task[2]].club_id>>

\* The tasks that have run lines 207-217 for a key.
Registered(key) ==
    {task \in ClubTasks : club_pc[task[1]][task[2]] = "done" /\ TaskKey(task) = key}

\* C3: whatever the interleaving of the process_club tasks, competition_clubs
\* holds one entry per key a task has registered and none else, and the entry's
\* season_ids holds one season_id per registering task (none lost, none added).
C3_OneEntryPerKey ==
    /\ \A m, n \in DOMAIN competition_clubs :
          Key(competition_clubs[m]) = Key(competition_clubs[n]) => m = n
    /\ \A task \in ClubTasks :
          club_pc[task[1]][task[2]] = "done" => HasKey(competition_clubs, TaskKey(task))
    /\ \A n \in DOMAIN competition_clubs :
          LET entry == competition_clubs[n] IN
          /\ Len(entry.season_ids) = Cardinality(Registered(Key(entry)))
          /\ Len(entry.season_ids) >= 1
          /\ \A s \in Seasons :
                Count(entry.season_ids, s)
                    = Cardinality({task \in Registered(Key(entry)) : SeasonId(task[1]) = s})

\* C3 witness: two tasks of different pairs sighted GB1/c1 at the same time and
\* the task of the second pair registered first.
C3_Witness ==
    /\ competitions_seasons = << <<"GB1", 2022>>, <<"GB1", 2023>> >>
    /\ \E n \in DOMAIN competition_clubs :
          /\ Key(competition_clubs[n]) = <<"GB1", "c1">>
          /\ competition_clubs[n].season_ids = <<2023, 2022>>

\* The clubs the provider lists for the i-th pair and the union of the rosters
\* of all clubs of all pairs.
ListedClubs(i) == Range(provider.clubs[competitions_seasons[i]].clubs)
RosterUnion ==
    UNION {UNION {Range(provider.players[<<club_id, SeasonId(i)>>].players) :
                     club_id \in ListedClubs(i)} :
              i \in DOMAIN competitions_seasons}

AllDiscoverySucceeds ==
    \A i \in DOMAIN competitions_seasons :
        /\ provider.clubs[competitions_seasons[i]].status = "200"
        /\ \A club_id \in ListedClubs(i) :
              provider.players[<<club_id, SeasonId(i)>>].status = "200"

\* C4: when every discovery request succeeds, player_ids never holds an id that
\* is on no roster, and once discovery has returned it is exactly the union of
\* the rosters of all clubs of all pairs (an id on several rosters held once);
\* for one pair listing distinct clubs the registry then holds one entry per
\* club, each with season_ids = [that season].
C4_PlayerSetIsRosterUnion ==
    AllDiscoverySucceeds =>
        /\ player_ids \subseteq RosterUnion
        /\ DetailStarted => player_ids = RosterUnion
        /\ (DetailStarted /\ Len(competitions_seasons) = 1
               /\ Cardinality(ListedClubs(1)) = Len(clubs[1])) =>
              /\ Len(competition_clubs) = Len(clubs[1])
              /\ \A n \in DOMAIN competition_clubs :
                    competition_clubs[n].season_ids = <<SeasonId(1)>>

\* C4 witness: one pair with two clubs whose rosters of 2 and 2 ids share one id
\* gives a set of 3 ids and 2 entries, each with the one season.
C4_Witness ==
    /\ pc = "detail"
    /\ competitions_seasons = << <<"GB1", 2022>> >>
    /\ provider.players[<<"c1", 2022>>].players = <<1, 2>>
    /\ provider.players[<<"c2", 2022>>].players = <<2, 3>>
    /\ player_ids = {1, 2, 3}
    /\ Len(competition_clubs) = 2
    /\ \A n \in DOMAIN competition_clubs : competition_clubs[n].season_ids = <<2022>>

\* The registry a run leaves when the process_club tasks register one after
\* another in the order of competitions_seasons and of each club listing.
RECURSIVE RegisterListing(_, _, _)
RegisterListing(registry, i, j) ==
    LET listing == ClubList(provider.clubs[competitions_seasons[i]], SeasonId(i)) IN
    IF j > Len(listing) THEN registry
    ELSE RegisterListing(
             RegisterClub(registry, CompetitionId(i), SeasonId(i), listing[j]), i, j + 1)

RECURSIVE RegisterPairs(_, _)
RegisterPairs(registry, i) ==
    IF i > Len(competitions_seasons) THEN registry
    ELSE RegisterPairs(RegisterListing(registry, i, 1), i + 1)

SequentialRegistry == RegisterPairs(<< >>, 1)

Keys(registry) == {Key(registry[n]) : n \in DOMAIN registry}
Entry(registry, key) == registry[CHOOSE n \in DOMAIN registry : Key(registry[n]) = key]

\* The sightings of a key in a season that the provider's listings hold.
Sightings(key, season_id) ==
    {place \in UNION {{<<i, j>> : j \in DOMAIN provider.clubs[competitions_seasons[i]].clubs} :
                         i \in DOMAIN competitions_seasons} :
        /\ competitions_seasons[place[1]] = <<key[1], season_id>>
        /\ provider.clubs[competitions_seasons[place[1]]].clubs[place[2]] = key[2]}

\* C5 as stated: discovery ends with the player set and, for every key, the
\* club_name and the season_ids list that the in-order run ends with, whatever
\* the order in which the tasks complete.
C5_SameRegistryInEveryOrder ==
    DetailStarted =>
        /\ player_ids = RosterUnion
        /\ Keys(competition_clubs) = Keys(SequentialRegistry)
        /\ \A key \in Keys(competition_clubs) :
              /\ Entry(competition_clubs, key).club_name
                     = Entry(SequentialRegistry, key).club_name
              /\ Entry(competition_clubs, key).season_ids
                     = Entry(SequentialRegistry, key).season_ids

\* What C5 leaves standing: whatever the order in which the tasks complete, discovery ends with
\* the union of the rosters, with one entry for each key the listings hold and no
\* other, each entry's season_ids holding every season as many times as the
\* listings sight the key in it, and its club_name being a name under which a
\* listing holds the club.
C5_SameRegistryUpToOrder ==
    DetailStarted =>
        /\ player_ids = RosterUnion
        /\ Keys(competition_clubs)
               = {key \in {pair[1] : pair \in Pairs} \X ClubIds :
                     \E s \in Seasons : Sightings(key, s) # {}}
        /\ \A n \in DOMAIN competition_clubs :
              LET entry == competition_clubs[n] IN
              /\ \A m \in DOMAIN competition_clubs : Key(competition_clubs[m]) = Key(entry) => m = n
              /\ \A s \in Seasons :
                    Count(entry.season_ids, s) = Cardinality(Sightings(Key(entry), s))
              /\ \A s \in Range(entry.season_ids) : s \in Seasons
              /\ \E s \in Range(entry.season_ids) :
                    entry.club_name = ClubName(entry.club_id, s)

\* Discovery of two pairs has ended with a registry that is not the
\* one of the in-order run.
C5_OrderShows ==
    /\ pc = "detail"
    /\ Len(competitions_seasons) = 2
    /\ competition_clubs # SequentialRegistry
    /\ \E key \in Keys(competition_clubs) :
          Entry(competition_clubs, key).season_ids # Entry(SequentialRegistry, key).season_ids

\* The provider answers some club-listing request of the run, or some roster
\* request of a listed club, with a status other than 200.
DiscoveryRequestFails ==
    \/ \E i \in DOMAIN competitions_seasons :
          provider.clubs[competitions_seasons[i]].status # "200"
    \/ \E i \in DOMAIN competitions_seasons :
          /\ provider.clubs[competitions_seasons[i]].status = "200"
          /\ \E club_id \in ListedClubs(i) :
                provider.players[<<club_id, SeasonId(i)>>].status # "200"

\* C6: when a club-listing or roster request of discovery answers a status
\* other than 200, the run never leaves discovery but by aborting: no detail
\* fetch group is started, no enrichment request is issued and export_data is
\* never called.
C6_DiscoveryFailureIsFatal ==
    DiscoveryRequestFails =>
        /\ pc \in {"discovery", "aborted"}
        /\ batch = 0
        /\ player_list = << >>
        /\ fetch_calls = << >>
        /\ youth_pc = << >>
        /\ exports = << >>

\* C6 witness: a roster request has answered a status other than 200 after other
\* rosters were read and a club was registered, and the run is aborted.
C6_Witness ==
    /\ pc = "aborted"
    /\ DiscoveryRequestFails
    /\ player_ids # {}
    /\ competition_clubs # << >>
    /\ \E i \in DOMAIN club_pc : \E j \in DOMAIN club_pc[i] :
          /\ club_pc[i][j] = "get_players"
          /\ provider.players[<<clubs[i][j].club_id, SeasonId(i)>>].status # "200"

\* The players whose process_player has returned.
ProcessedPlayers ==
    IF batch = 0 THEN {}
    ELSE UNION {Range(Batches(player_list, BATCH_SIZE)[k]) : k \in 1..(batch - 1)}
         \cup {CurrentBatch[j] : j \in {h \in DOMAIN player_pc : player_pc[h] = "done"}}

RowsOf(list, player_id) == SelectSeq(list, LAMBDA row : row.player_id = player_id)

\* The rows of one kind are what the player's own response of that kind holds:
\* none on a status other than 200, one per entry of the body on 200.
KindRowsFollowResponse(list, player_id, resp) ==
    LET rows == RowsOf(list, player_id) IN
    IF resp.status # "200" THEN rows = << >>
    ELSE /\ Len(rows) = Len(resp.body)
         /\ \A n \in DOMAIN rows : rows[n].entry = resp.body[n]

\* No detail request of the provider raises: each answers with a status, and a
\* profile answered 200 has a citizenship entry.
NoDetailRequestRaises ==
    \A player_id \in Players :
        /\ \A kind \in Kinds : provider.detail[player_id][kind].status # "raise"
        /\ provider.detail[player_id]["profile"].status = "200"
              => provider.detail[player_id]["profile"].body # << >>

\* C7: for every player whose detail group has returned, each table holds what
\* the player's own four responses dictate, whatever the other responses of the
\* player and of the other players are: a profile answered with a status other
\* than 200 gives the one row {player_id, error}, a jersey, market-value or
\* stats request answered with a status other than 200 gives no row of that
\* kind, and a request answered 200 gives its rows; when the detail requests
\* answer with statuses only, no task of the detail stage is cut short.
C7_NonOkDegradesOneRecord ==
    /\ NoDetailRequestRaises =>
          \A j \in DOMAIN player_pc : player_pc[j] \in {"waiting", "fetching", "done"}
    /\ \A player_id \in ProcessedPlayers :
        LET resp == provider.detail[player_id]
            profile == RowsOf(player_info_list, player_id)
        IN /\ Len(profile) = 1
           /\ IF resp["profile"].status # "200"
              THEN profile[1] = [player_id |-> player_id, error |-> resp["profile"].status]
              ELSE /\ DOMAIN profile[1]
                         = {"player_id", "primary_citizenship", "secondary_citizenship"}
                   /\ profile[1].primary_citizenship = resp["profile"].body[1]
           /\ KindRowsFollowResponse(jersey_numbers_list, player_id, resp["jersey"])
           /\ KindRowsFollowResponse(market_values_list, player_id, resp["market"])
           /\ KindRowsFollowResponse(player_stats_list, player_id, resp["stats"])

\* C7 witness: the run has exported; one player's profile request answered 404
\* and the export holds the error row and the jersey rows of that player, and the
\* rows of a player whose jersey request answered 404.
C7_Witness ==
    /\ pc = "exported"
    /\ \E player_id \in ProcessedPlayers :
          /\ provider.detail[player_id]["profile"].status = "404"
          /\ RowsOf(exports[1].player_info, player_id)
                 = <<[player_id |-> player_id, error |-> "404"]>>
          /\ RowsOf(exports[1].jersey_numbers, player_id) # << >>
    /\ \E other \in ProcessedPlayers :
          /\ provider.detail[other]["jersey"].status = "404"
          /\ RowsOf(exports[1].jersey_numbers, other) = << >>
          /\ RowsOf(exports[1].market_values, other) # << >>
    /\ ProcessedPlayers = player_ids
    /\ Cardinality(player_ids) = NumPlayers

\* C8 as stated: an exception raised by a detail fetch is contained: no
\* process_player ends by raising, none is cancelled, and the run is not aborted
\* once the detail stage has begun.
C8_DetailExceptionContained ==
    batch > 0 =>
        /\ pc # "aborted"
        /\ \A j \in DOMAIN player_pc : player_pc[j] \notin {"raised", "cancelled"}

\* The search response of the club of enrichment task c.
SearchResponse(c) == provider.search[competition_clubs_list[c].club_name]

\* The positions after the first whose result has the first result's country.
SameCountryAfterFirst(results) ==
    {n \in 2..Len(results) : results[n].country = results[1].country}

\* C9 as stated: a club entry whose add_youth_team_data has returned carries
\* youth_team_id and youth_team_name, and both are null when the search had no
\* result, no result after the first has the first one's country, the status
\* was not 200, or the request raised.
C9_YouthFieldsAlwaysPresent ==
    \A c \in DOMAIN youth_pc :
        youth_pc[c] = "done" =>
            LET club == competition_clubs_list[c]
                resp == SearchResponse(c)
            IN /\ {"youth_team_id", "youth_team_name"} \subseteq DOMAIN club
               /\ (resp.status # "200" \/ SameCountryAfterFirst(resp.results) = {})
                     => club.youth_team_id = None /\ club.youth_team_name = None

\* C10: after a search answered 200, the club's youth team is the result at the
\* smallest position after the first whose country is the first result's
\* country, and null when there is none; the first result is never taken.
C10_FirstSameCountryAfterFirst ==
    \A c \in DOMAIN youth_pc :
        (youth_pc[c] = "done" /\ SearchResponse(c).status = "200") =>
            LET club == competition_clubs_list[c]
                results == SearchResponse(c).results
                matches == SameCountryAfterFirst(results)
            IN /\ {"youth_team_id", "youth_team_name"} \subseteq DOMAIN club
               /\ IF matches = {}
                  THEN club.youth_team_id = None /\ club.youth_team_name = None
                  ELSE LET n == CHOOSE m \in matches : \A k \in matches : m <= k
                       IN /\ club.youth_team_id = results[n].id
                          /\ club.youth_team_name = results[n].name
               /\ results # << >> => club.youth_team_id # results[1].id

\* C10 witness: the run has exported a club whose search listed the countries
\* DE, FR, DE and whose youth team is the third result.
C10_Witness ==
    /\ pc = "exported"
    /\ \E c \in DOMAIN youth_pc :
          /\ SearchResponse(c) = SearchOk(<<"DE", "FR", "DE">>)
          /\ exports[1].competition_clubs[c].youth_team_id = "y3"
          /\ exports[1].competition_clubs[c].youth_team_name = "Youth 3"

Digit == <<"0", "1", "2", "3", "4", "5", "6", "7", "8", "9">>
TwoDigits(n) == Digit[(n \div 10) + 1] \o Digit[(n % 10) + 1]

\* The label of the season from July of year y to June of year y + 1.
JulyToJune(y) == TwoDigits(y % 100) \o "/" \o TwoDigits((y + 1) % 100)

\* The labels whose second number is the first plus one modulo 100.
PlusOneLabels == {TwoDigits(a) \o "/" \o TwoDigits((a + 1) % 100) : a \in 0..99}

\* C11: every market value row carries as season the two 2-digit zero-padded
\* numbers of the July-to-June season its date falls in: the season that began
\* in the year before for a month before July, the season that begins in the
\* year of the date otherwise; the second number is the first plus one modulo
\* 100; 2022-06 gives 21/22, 2022-07 gives 22/23 and 2000-01 gives 99/00.
C11_SeasonLabel ==
    \A n \in DOMAIN market_values_list :
        LET date == market_values_list[n].entry
            season == market_values_list[n].season
        IN /\ season = JulyToJune(IF date.month < 7 THEN date.year - 1 ELSE date.year)
           /\ season \in PlusOneLabels
           /\ date = [year |-> 2022, month |-> 6] => season = "21/22"
           /\ date = [year |-> 2022, month |-> 7] => season = "22/23"
           /\ date = [year |-> 2000, month |-> 1] => season = "99/00"
           /\ date = [year |-> 2023, month |-> 5] => season = "22/23"
           /\ date = [year |-> 2023, month |-> 9] => season = "23/24"

\* C11 witness: the run has exported the valuation of January 2000 under the
\* season 99/00.
C11_Witness ==
    /\ pc = "exported"
    /\ \E n \in DOMAIN exports[1].market_values :
          /\ exports[1].market_values[n].entry = [year |-> 2000, month |-> 1]
          /\ exports[1].market_values[n].season = "99/00"

\* The players with a detail request that never answers.
HungPlayers == {player_id \in Players : FetchHangs(player_id)}

\* C12 as stated: a detail request that never answers stalls its own slot only:
\* the detail stage does not come to a halt while a player other than the one
\* of that request, of this batch or of a later one, is still to be processed.
C12_HungRequestStallsOnlyItsSlot ==
    (pc = "detail" /\ HungPlayers # {} /\ ~ENABLED Next) =>
        player_ids \ HungPlayers \subseteq ProcessedPlayers

\* The halt of C12 at a batch boundary: every other player of the batch of the
\* hung request is processed, and the players of the next batch never start.
C12_NoHaltAtBatchBoundary ==
    ~ /\ pc = "detail"
      /\ ~ENABLED Next
      /\ batch < Len(Batches(player_list, BATCH_SIZE))
      /\ \A j \in DOMAIN player_pc :
            player_pc[j] = "done" \/ CurrentBatch[j] \in HungPlayers

\* The players with a row in a profile table.
PlayersIn(table) == {table[n].player_id : n \in DOMAIN table}

\* C13 as stated: in the thread variant the set of processed ids is empty when
\* a run of build_player_dataset starts, and the second run of a process fetches
\* and exports every player the first run exported.
C13_EachRunStartsEmpty ==
    /\ (thread_pc = "get_clubs" /\ pair_index = 1) => processed_player_ids = {}
    /\ Len(thread_exports) = 2 =>
          /\ PlayersIn(thread_exports[1].player_info) \subseteq Range(thread_exports[2].fetched)
          /\ PlayersIn(thread_exports[1].player_info)
                \subseteq PlayersIn(thread_exports[2].player_info)

\* C14 as stated: in the thread variant no player id has its detail requests
\* issued twice in one run, whatever the interleaving of the workers of a roster.
C14_AtMostOneFetchPerRun ==
    \A player_id \in Players : Count(thread_fetch_calls, player_id) <= 1

\* C15 as stated: the season_ids of a registry entry holds no season_id twice.
C15_SeasonIdsIsASet ==
    \A n \in DOMAIN competition_clubs :
        \A a, b \in DOMAIN competition_clubs[n].season_ids :
            competition_clubs[n].season_ids[a] = competition_clubs[n].season_ids[b] => a = b

\* The players whose detail fetch group has returned and left its profile row.
Completed == PlayersIn(player_info_list)

\* C16: whenever the detail fetch group of a player has been started, the groups
\* of all players of the earlier batches (the players at the positions of
\* list(player_ids) before the player's slice of BATCH_SIZE) have completed; so
\* no group of batch k+1 starts before every group of batch k has completed.
C16_BatchesOneAfterAnother ==
    \A i \in DOMAIN player_list :
        player_list[i] \in Range(fetch_calls) =>
            \A h \in 1..(((i - 1) \div BATCH_SIZE) * BATCH_SIZE) :
                player_list[h] \in Completed

\* C16 witness: a group of the second batch is in flight and the first batch,
\* of BATCH_SIZE players, has completed.
C16_Witness ==
    /\ pc = "detail"
    /\ batch = 2
    /\ \E j \in DOMAIN player_pc : player_pc[j] = "fetching"
    /\ Len(fetch_calls) = BATCH_SIZE + 1
    /\ Cardinality(Completed) = BATCH_SIZE

\* No club-listing or roster request of discovery is outstanding, and every
\* process_club has registered.
DiscoveryCompleted ==
    /\ \A i \in DOMAIN cs_pc : cs_pc[i] = "done"
    /\ \A task \in ClubTasks : club_pc[task[1]][task[2]] = "done"
    /\ DOMAIN cs_pc = DOMAIN competitions_seasons

\* C17: the stages run in order. A detail fetch group is started only when
\* discovery has completed; the youth-team searches exist only when discovery
\* has completed, every discovered player's group has completed and the list of
\* clubs holds one entry per entry of the registry; export_data is called only
\* when every search has returned, never twice, and once when the run has
\* reached its end.
C17_StagesInOrder ==
    /\ fetch_calls # << >> => DiscoveryCompleted
    /\ youth_pc # << >> =>
          /\ DiscoveryCompleted
          /\ player_ids \subseteq Completed
          /\ \A j \in DOMAIN player_pc : player_pc[j] = "done"
          /\ Len(competition_clubs_list) = Len(competition_clubs)
          /\ Len(youth_pc) = Len(competition_clubs)
          /\ \A c \in DOMAIN youth_pc :
                /\ competition_clubs_list[c].club_id = competition_clubs[c].club_id
                /\ competition_clubs_list[c].competition_id = competition_clubs[c].competition_id
    /\ exports # << >> =>
          /\ DiscoveryCompleted
          /\ player_ids \subseteq Completed
          /\ Len(youth_pc) = Len(competition_clubs)
          /\ \A c \in DOMAIN youth_pc : youth_pc[c] = "done"
    /\ Len(exports) <= 1
    /\ pc = "exported" <=> Len(exports) = 1

\* C17 witness: the run has exported after two batches of detail fetches and
\* two youth-team searches.
C17_Witness ==
    /\ pc = "exported"
    /\ Len(exports) = 1
    /\ Len(fetch_calls) = NumPlayers
    /\ batch = 2
    /\ Len(youth_pc) = 2
    /\ \A c \in DOMAIN youth_pc : "youth_team_id" \in DOMAIN exports[1].competition_clubs[c]

BagOf(seq) == [x \in Range(seq) |-> Count(seq, x)]

\* The rows of one kind that process_player appends when the players of a list
\* are processed as one batch, each group returning in the order of the list.
RECURSIVE OneBatchRows(_, _)
OneBatchRows(kind, list) ==
    IF list = << >> THEN << >>
    ELSE LET resp == provider.detail[Head(list)][kind]
         IN (IF kind = "profile" THEN <<ProfileRow(Head(list), resp)>>
             ELSE ListRows(Head(list), kind, resp))
            \o OneBatchRows(kind, Tail(list))

\* C18: the four tables a run exports hold, as collections of rows, the rows
\* that processing the whole population as a single batch gives, whatever
\* BATCH_SIZE cuts it into (a population with a request that raises gives no
\* rows as a single batch).
C18_BatchingKeepsResults ==
    (pc = "exported" /\ \A n \in DOMAIN player_list : ~FetchRaises(player_list[n])) =>
        /\ BagOf(exports[1].player_info) = BagOf(OneBatchRows("profile", player_list))
        /\ BagOf(exports[1].jersey_numbers) = BagOf(OneBatchRows("jersey", player_list))
        /\ BagOf(exports[1].market_values) = BagOf(OneBatchRows("market", player_list))
        /\ BagOf(exports[1].player_stats) = BagOf(OneBatchRows("stats", player_list))

\* C18 witness: the run has exported the rows of a population cut into a full
\* batch and a shorter one.
C18_Witness ==
    /\ pc = "exported"
    /\ Len(Batches(player_list, BATCH_SIZE)) = 2
    /\ Len(Batches(player_list, BATCH_SIZE)[2]) < BATCH_SIZE
    /\ Len(exports[1].player_info) = NumPlayers
    /\ Len(exports[1].jersey_numbers) > NumPlayers

\* C19: the records a run exports are those that the player set and the
\* provider's responses dictate, whatever the order in which list(player_ids)
\* gives the players and in which their tasks complete: for every discovered
\* player the profile row and the rows of its three lists, in the order of the
\* response, and no row of any other player.
C19_SameRecordsInEveryOrder ==
    pc = "exported" =>
        \A player_id \in Players :
            LET resp == provider.detail[player_id]
                profile == RowsOf(exports[1].player_info, player_id)
            IN IF player_id \in player_ids
               THEN /\ Len(profile) = 1
                    /\ IF resp["profile"].status = "200"
                       THEN /\ profile[1].primary_citizenship = resp["profile"].body[1]
                            /\ profile[1].secondary_citizenship
                                  = IF Len(resp["profile"].body) > 1
                                    THEN resp["profile"].body[2] ELSE None
                       ELSE profile[1].error = resp["profile"].status
                    /\ KindRowsFollowResponse(exports[1].jersey_numbers, player_id, resp["jersey"])
                    /\ KindRowsFollowResponse(exports[1].market_values, player_id, resp["market"])
                    /\ KindRowsFollowResponse(exports[1].player_stats, player_id, resp["stats"])
               ELSE /\ profile = << >>
                    /\ RowsOf(exports[1].jersey_numbers, player_id) = << >>
                    /\ RowsOf(exports[1].market_values, player_id) = << >>
                    /\ RowsOf(exports[1].player_stats, player_id) = << >>

\* C19 witness: the run has exported the rows of a player that was started
\* after another player of its batch and completed before it.
C19_Witness ==
    /\ pc = "exported"
    /\ \E a, b \in DOMAIN exports[1].player_info :
          /\ a < b
          /\ \E m, n \in DOMAIN fetch_calls :
                /\ m < n
                /\ fetch_calls[m] = exports[1].player_info[b].player_id
                /\ fetch_calls[n] = exports[1].player_info[a].player_id

\* A season written as many times as the listings sight the key in it.
Sighted(key, season_id) ==
    [n \in 1..Cardinality(Sightings(key, season_id)) |-> season_id]

\* The sighted seasons of a key, the later season first, as text.
SightedSeasonsText(key) ==
    LET seasons == Sighted(key, 2023) \o Sighted(key, 2022) IN
    IF seasons = << >> THEN ""
    ELSE IF Len(seasons) = 1 THEN ToString(seasons[1])
    ELSE IF Len(seasons) = 2 THEN ToString(seasons[1]) \o "," \o ToString(seasons[2])
    ELSE ToString(seasons[1]) \o "," \o ToString(seasons[2]) \o "," \o ToString(seasons[3])

\* C20: from Step 3 on, the season field of every club of the list is the text
\* of the club's sighted seasons in descending order, separated by commas: it
\* follows from the listings alone, not from the order in which the discovery
\* tasks appended the seasons; a club sighted in 2022 and 2023 has "2023,2022".
C20_SeasonFieldSortedDescending ==
    \A c \in DOMAIN competition_clubs_list :
        LET club == competition_clubs_list[c]
            key == <<club.competition_id, club.club_id>>
        IN /\ club["season_id(s)"] = SightedSeasonsText(key)
           /\ (Sightings(key, 2022) # {} /\ Sightings(key, 2023) # {})
                 => club["season_id(s)"] = "2023,2022"
           /\ pc = "exported" =>
                 exports[1].competition_clubs[c]["season_id(s)"] = club["season_id(s)"]

\* C20 witness: the run has exported "2023,2022" for a club whose registry
\* entry holds the seasons as appended, 2022 before 2023.
C20_Witness ==
    /\ pc = "exported"
    /\ \E c \in DOMAIN competition_clubs :
          /\ competition_clubs[c].season_ids = <<2022, 2023>>
          /\ exports[1].competition_clubs[c]["season_id(s)"] = "2023,2022"

ClubKeys == {"competition_id", "club_id", "club_name", "season_id(s)"}
YouthKeys == {"youth_team_id", "youth_team_name"}

\* The youth-team fields of an entry, None for a field the entry does not carry.
YouthFields(club) ==
    [key \in YouthKeys |-> IF key \in DOMAIN club THEN club[key] ELSE None]

\* The search response of the club of enrichment task c, under the name the
\* registry holds for it.
OwnSearch(c) == provider.search[competition_clubs[c].club_name]

\* The entry of the list's club c is what the club's own search response alone
\* makes of it.
ResolvedFromOwnSearch(c) ==
    LET club == competition_clubs_list[c]
        resp == OwnSearch(c)
        matches == SameCountryAfterFirst(resp.results)
    IN IF resp.status = "200" /\ matches # {}
       THEN LET n == CHOOSE m \in matches : \A k \in matches : m <= k
            IN /\ club["youth_team_id"] = resp.results[n].id
               /\ club["youth_team_name"] = resp.results[n].name
       ELSE YouthFields(club) = [key \in YouthKeys |-> None]

\* A step of the enrichment stage writes the youth-team fields of one entry,
\* that of the task that returns, and nothing else of the list.
OneWriter ==
    (pc = "enrich" /\ competition_clubs_list' # competition_clubs_list) =>
        /\ DOMAIN competition_clubs_list' = DOMAIN competition_clubs_list
        /\ \A c \in DOMAIN competition_clubs_list :
              /\ \A key \in ClubKeys :
                    competition_clubs_list'[c][key] = competition_clubs_list[c][key]
              /\ competition_clubs_list'[c] # competition_clubs_list[c] =>
                    /\ youth_pc[c] = "search" /\ youth_pc'[c] = "done"
                    /\ \A other \in DOMAIN competition_clubs_list \ {c} :
                          /\ competition_clubs_list'[other] = competition_clubs_list[other]
                          /\ youth_pc'[other] = youth_pc[other]

\* When the enrichment task of a club returns, whatever the searches of the
\* other clubs answer and wherever their tasks are, the entry of the club is
\* what its own search alone makes of it; and a task whose search answers can
\* return, whatever the other tasks do.
Independent ==
    pc \in {"enrich", "exported"} =>
        \A c \in DOMAIN youth_pc :
            /\ youth_pc[c] = "done" => ResolvedFromOwnSearch(c)
            /\ (pc = "enrich" /\ youth_pc[c] = "search"
                   /\ OwnSearch(c).status # "hang") => ENABLED AddYouthTeamData(c)

\* C21: enrichment of one club is independent of every other club: a task
\* writes the two youth-team fields of its own entry only and leaves
\* competition_id, club_id, club_name and the season field of every entry as
\* they are; a search that fails, raises or never answers changes nothing of
\* what another club resolves and does not keep it from resolving.
C21_EnrichmentPerClub == [][OneWriter]_vars /\ []Independent

\* C21 witness: the search of one club never answers and the other club of the
\* list has resolved its youth team from its own results.
C21_Witness ==
    /\ pc = "enrich"
    /\ \E c, other \in DOMAIN youth_pc :
          /\ youth_pc[c] = "search"
          /\ SearchResponse(c).status = "hang"
          /\ youth_pc[other] = "done"
          /\ competition_clubs_list[other]["youth_team_id"] = "y3"
          /\ competition_clubs_list[other].club_name # competition_clubs_list[c].club_name

\* Every request of the run is answered with a response: the discovery requests
\* with status 200, the detail and search requests with any status.
EveryRequestAnswers ==
    /\ ~DiscoveryRequestFails
    /\ \A player_id \in Players, kind \in Kinds :
          provider.detail[player_id][kind].status \notin {"raise", "hang"}
    /\ \A name \in ClubNames : provider.search[name].status \notin {"raise", "hang"}

\* The run is not aborted, is at its end or can take a step, and no permit is
\* held when a batch has ended or the detail stage is over.
RunsToExport ==
    /\ pc # "aborted"
    /\ pc = "exported" \/ ENABLED Next
    /\ \A j \in DOMAIN player_pc : player_pc[j] \in {"waiting", "fetching", "done"}
    /\ semaphore + Cardinality(InFlight) = SemaphoreValue
    /\ (pc \in {"enrich", "exported"} \/ GatherReturns(player_pc)) => semaphore = SemaphoreValue

\* C22 as stated: when every request is answered with a response, the run does
\* not come to a halt before export_data: it is never aborted, it can take a
\* step until it has exported, every permit acquired is released and none is
\* held at the end of a batch.
C22_NoDeadlock == EveryRequestAnswers => RunsToExport

\* What holds of C22: the same, when moreover every profile answered 200
\* carries a citizenship entry.
C22_NoDeadlockOnWellFormedProfiles ==
    (EveryRequestAnswers /\ NoDetailRequestRaises) => RunsToExport
====
